---- MODULE Spec2Model ----
(***************************************************************************)
(* vagueFinder: sentence comparison on top of an embedding pipeline.       *)
(*                                                                         *)
(* The module models                                                       *)
(*   - the process-wide state (PipelineSingleton.instance, model,          *)
(*     progress) and loadModel,                                            *)
(*   - the public comparison operations as JavaScript async functions:     *)
(*     one action runs a call from one await to the next,                  *)
(*   - LinkedListInAlikeOrder as a heap of doubly linked nodes.            *)
(* Arrays are kept in a heap of named arrays so that a copy ([...array])   *)
(* and an alias are different things.                                      *)
(***************************************************************************)
EXTENDS Integers, Sequences, FiniteSets, TLC

VARIABLES
    instance,     \* PipelineSingleton.instance: the promise made by pipeline()
    model,        \* let model
    progress,     \* let progress
    loaders,      \* the loadModel calls made: awaiting, ok or failed
    pipelineCalls,\* how many times pipeline() was invoked
    heap,         \* the arrays of the program, by name
    call,         \* the public operation in flight, or the last one finished
    prev,         \* what the operation before `call` returned (history)
    ranker,       \* a LinkedListInAlikeOrder driven directly (SpecRanker)
    fed,          \* the scores passed to ranker.addNode, in order
    reported,     \* the data of the latest progress callback invocation (history)
    observed,     \* what the caller's getProgress() calls returned (history)
    cosine        \* calculateCosineSimilarity called directly (SpecCosine)

vars == <<instance, model, progress, loaders, pipelineCalls, heap, call, prev,
          ranker, fed, reported, observed, cosine>>

-----------------------------------------------------------------------------
(* Bounds *)

MaxLen == 3        \* longest items array once the model is loaded (SpecLoaded)
MaxLenLoading == 2 \* longest items array while loadModel calls run (Spec)
MaxLoads == 2      \* loadModel calls in one behaviour
MaxFeed == 4       \* addNode calls on the directly driven ranker
MaxCapacity == 3   \* largest maxLength of the directly driven ranker
MaxReads == 2      \* getProgress calls in one behaviour (SpecProgress)
MaxDim == 2        \* longest embedding passed to calculateCosineSimilarity directly
MaxCoord == 1      \* largest absolute coordinate of those embeddings
MaxLenSupplied == 2 \* longest array of mixed candidates (SpecSupplied)
MaxLenCached == 2  \* longest hand-made cached list (SpecCached)
MaxLenLive == 2    \* longest items array with an answering provider (SpecLive)
MaxLenShared == 2  \* longest items array the caller starts getTop with (SpecShared)

-----------------------------------------------------------------------------
(* Values *)

\* JavaScript null for the pipeline, the promise and the progress value.
NULL == "null"

\* JavaScript null for an embedding (an empty tuple: no embedding of the
\* model is empty).
NoEmbedding == <<>>

\* The null link of a list node: nodes are numbered from 1.
NoNode == 0

\* The NaN a division 0/0 or an arithmetic on undefined produces; every
\* real score of the model lies in -1..1.
NaN == 99

Sentence == "q"
Texts == {"a", "b", "c"}

\* What `array[i].sentenceTwo ? array[i].sentenceTwo : array[i]` yields for an
\* object without a usable sentenceTwo: the object itself.
ObjectText == "[object Object]"

\* The embedding provider: model(text, {pooling: "mean", normalize: true}).
\* Deterministic, fixed dimension, unit length.  "b" and "c" are different
\* texts with different embeddings and the same score against Sentence.
Embed(text) ==
    CASE text = "q" -> <<1, 0>>
      [] text = "a" -> <<1, 0>>
      [] text = "b" -> <<0, 1>>
      [] text = "c" -> <<0, -1>>
      [] OTHER -> <<-1, 0>>

-----------------------------------------------------------------------------
(* calculateCosineSimilarity *)

\* Math.sqrt: exact on the perfect squares the provider's embeddings give,
\* the integer part otherwise.
Sqrt(n) == CHOOSE r \in 0..n : r * r <= n /\ (r + 1) * (r + 1) > n

\* embedding2[i] is undefined beyond its length: the sums become NaN.
RECURSIVE SumTo(_, _, _, _)
SumTo(e1, e2, i, acc) ==
    IF i > Len(e1) THEN acc
    ELSE IF i > Len(e2) THEN [acc EXCEPT !.nan = TRUE]
    ELSE SumTo(e1, e2, i + 1,
               [acc EXCEPT !.dotProduct = @ + e1[i] * e2[i],
                           !.magnitude1 = @ + e1[i] * e1[i],
                           !.magnitude2 = @ + e2[i] * e2[i]])

\* The sums the for loop leaves in dotProduct, magnitude1 and magnitude2.
Sums(embedding1, embedding2) ==
    SumTo(embedding1, embedding2, 1,
          [dotProduct |-> 0, magnitude1 |-> 0, magnitude2 |-> 0, nan |-> FALSE])

\* The division written dotProduct / (magnitude1 * magnitude1).
calculateCosineSimilarityOneSided(embedding1, embedding2) ==
    LET s == Sums(embedding1, embedding2)
        d == Sqrt(s.magnitude1) * Sqrt(s.magnitude1)
    IN  IF s.nan \/ d = 0 THEN NaN ELSE s.dotProduct \div d

calculateCosineSimilarity(embedding1, embedding2) ==
    LET s == Sums(embedding1, embedding2)
        d == Sqrt(s.magnitude1) * Sqrt(s.magnitude2)
    IN  IF s.nan \/ d = 0 THEN NaN ELSE s.dotProduct \div d

\* One direct call: its arguments and what it computed.
NotCalled == [done |-> FALSE, dotProduct |-> 0, magnitude1 |-> 0, magnitude2 |-> 0,
              similarity |-> 0]

Called(embedding1, embedding2) ==
    LET s == Sums(embedding1, embedding2)
    IN  [done |-> TRUE,
         dotProduct |-> IF s.nan THEN NaN ELSE s.dotProduct,
         magnitude1 |-> IF s.nan THEN NaN ELSE s.magnitude1,
         magnitude2 |-> IF s.nan THEN NaN ELSE s.magnitude2,
         similarity |-> calculateCosineSimilarity(embedding1, embedding2)]

NoCosine == [a |-> <<>>, b |-> <<>>, forward |-> NotCalled, backward |-> NotCalled]

\* calculateCosineSimilarity(a, b)
CosineForward ==
    /\ ~cosine.forward.done
    /\ cosine' = [cosine EXCEPT !.forward = Called(cosine.a, cosine.b)]
    /\ UNCHANGED <<instance, model, progress, loaders, pipelineCalls, heap, call,
                   prev, ranker, fed, reported, observed>>

\* calculateCosineSimilarity(b, a)
CosineBackward ==
    /\ ~cosine.backward.done
    /\ cosine' = [cosine EXCEPT !.backward = Called(cosine.b, cosine.a)]
    /\ UNCHANGED <<instance, model, progress, loaders, pipelineCalls, heap, call,
                   prev, ranker, fed, reported, observed>>

-----------------------------------------------------------------------------
(* Array.prototype.sort((a, b) => b.alike - a.alike) *)

\* The comparator written (a, b) => a.alike - b.alike.
SortCompareFlipped(a, b) ==
    IF a.alike = NaN \/ b.alike = NaN THEN 0 ELSE a.alike - b.alike

\* The comparator; a NaN result counts as 0.
SortCompare(a, b) ==
    IF a.alike = NaN \/ b.alike = NaN THEN 0 ELSE b.alike - a.alike

\* Stable insertion: x goes behind every element that does not come after it.
RECURSIVE InsertSorted(_, _)
InsertSorted(x, s) ==
    IF s = <<>> THEN <<x>>
    ELSE IF SortCompare(Head(s), x) <= 0 THEN <<Head(s)>> \o InsertSorted(x, Tail(s))
    ELSE <<x>> \o s

RECURSIVE SortFrom(_, _)
SortFrom(s, acc) ==
    IF s = <<>> THEN acc ELSE SortFrom(Tail(s), InsertSorted(Head(s), acc))

\* ECMAScript 2019: the sort is stable.
Sort(s) == SortFrom(s, <<>>)

-----------------------------------------------------------------------------
(* class LinkedListInAlikeOrder *)

\* The test of _getIndex written currentNode.alike >= alike.
GreaterEq(a, b) == a # NaN /\ b # NaN /\ a >= b

\* `a <= b` on numbers: false when either is NaN.
LessEq(a, b) == a # NaN /\ b # NaN /\ a <= b

NewList(maxLength) ==
    [head |-> NoNode, tail |-> NoNode, length |-> 0, maxLength |-> maxLength,
     nodes |-> <<>>, crashed |-> FALSE]

_node(obj) ==
    [alike |-> obj.alike, sentenceTwo |-> obj.sentenceTwo,
     next |-> NoNode, prev |-> NoNode]

RECURSIVE GetArrayFrom(_, _)
GetArrayFrom(list, currentNode) ==
    IF currentNode = NoNode THEN <<>>
    ELSE <<[alike |-> list.nodes[currentNode].alike,
            sentenceTwo |-> list.nodes[currentNode].sentenceTwo]>>
         \o GetArrayFrom(list, list.nodes[currentNode].next)

\* A getArray that hands out the nodes themselves, as they were allocated.
getArrayOfNodes(list) == list.nodes

getArray(list) == GetArrayFrom(list, list.head)

RECURSIVE GetIndexFrom(_, _, _, _)
GetIndexFrom(list, alike, count, currentNode) ==
    IF count < list.maxLength
    THEN IF currentNode = NoNode \/ LessEq(list.nodes[currentNode].alike, alike)
         THEN count
         ELSE GetIndexFrom(list, alike, count + 1, list.nodes[currentNode].next)
    ELSE list.maxLength

_getIndex(list, alike) == GetIndexFrom(list, alike, 0, list.head)

\* A TypeError inside the list (a property of null) leaves it as it is.
Crash(list) == [list EXCEPT !.crashed = TRUE]

\* An eviction that unlinks the head instead of the tail.
_deleteHeadNode(list) ==
    LET newHead == list.nodes[list.head].next
        l1 == [list EXCEPT !.nodes[list.head].next = NoNode]
    IN  IF newHead = NoNode THEN Crash(l1)
        ELSE [l1 EXCEPT !.nodes[newHead].prev = NoNode,
                        !.head = newHead,
                        !.length = @ - 1]

\* An eviction that moves tail back without cutting the link to the old tail.
_deleteLastNodeLinked(list) ==
    LET newTail == list.nodes[list.tail].prev
        l1 == [list EXCEPT !.nodes[list.tail].prev = NoNode]
    IN  IF newTail = NoNode THEN Crash(l1)
        ELSE [l1 EXCEPT !.tail = newTail, !.length = @ - 1]

_deleteLastNode(list) ==
    LET newTail == list.nodes[list.tail].prev
        l1 == [list EXCEPT !.nodes[list.tail].prev = NoNode]
    IN  IF newTail = NoNode THEN Crash(l1)
        ELSE [l1 EXCEPT !.nodes[newTail].next = NoNode,
                        !.tail = newTail,
                        !.length = @ - 1]

\* An audit that never evicts.
_auditNever(list) == list

_audit(list) ==
    IF list.length > list.maxLength THEN _deleteLastNode(list) ELSE list

RECURSIVE WalkFrom(_, _, _, _)
WalkFrom(list, currentNode, count, index) ==
    IF count + 1 < index /\ currentNode # NoNode
    THEN WalkFrom(list, list.nodes[currentNode].next, count + 1, index)
    ELSE currentNode

_insertAtIndex(list, index, obj) ==
    LET n == Len(list.nodes) + 1
        l0 == [list EXCEPT !.nodes = Append(@, _node(obj))]
    IN  IF index = 0
        THEN IF l0.head = NoNode THEN Crash(l0)
             ELSE _audit([l0 EXCEPT !.nodes[n].next = l0.head,
                                    !.nodes[l0.head].prev = n,
                                    !.head = n,
                                    !.length = @ + 1])
        ELSE IF index = l0.length
        THEN IF l0.tail = NoNode THEN Crash(l0)
             ELSE _audit([l0 EXCEPT !.nodes[l0.tail].next = n,
                                    !.nodes[n].prev = l0.tail,
                                    !.tail = n,
                                    !.length = @ + 1])
        ELSE LET currentNode == WalkFrom(l0, l0.head, 0, index)
                 after == IF currentNode = NoNode THEN NoNode
                          ELSE l0.nodes[currentNode].next
             IN  IF currentNode = NoNode \/ after = NoNode THEN Crash(l0)
                 ELSE _audit([l0 EXCEPT !.nodes[n].next = after,
                                        !.nodes[after].prev = n,
                                        !.nodes[n].prev = currentNode,
                                        !.nodes[currentNode].next = n,
                                        !.length = @ + 1])

addNode(list, obj) ==
    IF list.head = NoNode
    THEN LET n == Len(list.nodes) + 1
         IN  _audit([list EXCEPT !.nodes = Append(@, _node(obj)),
                                 !.head = n,
                                 !.tail = n,
                                 !.length = @ + 1])
    ELSE _insertAtIndex(list, _getIndex(list, obj.alike), obj)

-----------------------------------------------------------------------------
(* Arrays and their elements *)

\* The arrays of the program: the caller's two arrays, the copies a call
\* makes, and the array a call builds to return.
Refs == {"array", "cachedArray", "copyA", "copyB", "returned"}

\* A string element is [str |-> s]; a cache entry is
\* [sentenceTwo |-> s, embedding |-> e], with "" for a missing sentenceTwo
\* and NoEmbedding for a missing embedding; a result is
\* [sentenceTwo |-> s, alike |-> n].
Str(s) == [str |-> s]
Entry(s, e) == [sentenceTwo |-> s, embedding |-> e]

\* array[i] used as a text: the string itself.
Raw(x) == IF "str" \in DOMAIN x THEN x.str ELSE ObjectText

\* array[i] passed where the text is wanted, as getTop does.
SentenceTwoAsIs(x) == Raw(x)

\* array[i].sentenceTwo ? array[i].sentenceTwo : array[i]
SentenceTwoOf(x) ==
    IF "sentenceTwo" \in DOMAIN x /\ x.sentenceTwo # "" THEN x.sentenceTwo
    ELSE Raw(x)

\* array[i].embedding read from an entry that was stored without it.
EmbeddingLost(x) == NoEmbedding

\* array[i].embedding ? array[i].embedding : null
EmbeddingOf(x) ==
    IF "embedding" \in DOMAIN x THEN x.embedding ELSE NoEmbedding

\* `array = array`: no copy is made.
AliasOf(from, to) == from

\* [...array] evaluates to a new array.
SpreadCopy(from, to) == to

\* The heap after `to` was allocated as a copy of `from`.
Allocate(h, from, to) == [h EXCEPT ![to] = h[from]]

\* array[i] = v, or returnedArray[i] = v with i the length (0-based i).
Store(h, ref, i, v) ==
    IF i < Len(h[ref]) THEN [h EXCEPT ![ref][i + 1] = v]
    ELSE [h EXCEPT ![ref] = Append(@, v)]

-----------------------------------------------------------------------------
(* The public operations *)

ModelNotLoaded == "Model has not been loaded, use vagueFinder.loadModel()"
InvalidK == "numberOfResults is either 0 or less than 0"
InvalidCacheEntry == "Each item in the cachedArray must have a sentenceTwo property"
TypeError == "TypeError"
ProviderError == "provider rejected"

IdleCall ==
    [op |-> "none", status |-> "idle", error |-> "", pc |-> "",
     src |-> "array", flag |-> FALSE, k |-> 0, ref |-> "array", i |-> 0,
     cache |-> NoEmbedding, s2 |-> "", c1 |-> FALSE, e2c |-> NoEmbedding,
     e1 |-> NoEmbedding, e2 |-> NoEmbedding, alike |-> 0,
     await |-> "", req |-> "", list |-> NewList(0),
     out |-> "", result |-> <<>>,
     loadedAtStart |-> FALSE, requests |-> <<>>, answered |-> 0, scored |-> 0,
     at |-> 0]

Throw(c, e) == [c EXCEPT !.status = "error", !.error = e, !.pc = "", !.await = ""]

\* The rejected request is sent a second time before the error surfaces.
RejectAfterRetry(c) ==
    Throw([c EXCEPT !.requests = Append(@, c.req)], ProviderError)

\* The rejection is swallowed and the promise of the call never settles.
RejectHangs(c) == [c EXCEPT !.await = "", !.pc = ""]

\* `await model(...)` rejects: no try/catch lies between the await and the
\* caller of the public operation, which gets the provider's error.
Reject(c) == Throw(c, ProviderError)

\* A request sent without regard to model.
CallModelUnchecked(c, m, which, text) ==
    [c EXCEPT !.await = which, !.req = text, !.requests = Append(@, text)]

\* The request goes out together with a second one for the same text.
CallModelTwice(c, m, which, text) ==
    [c EXCEPT !.await = which, !.req = text,
              !.requests = Append(Append(@, text), text)]

\* `await model(text, ...)`: calling null is a TypeError, otherwise the
\* request goes out and the call is suspended.
CallModel(c, m, which, text) ==
    IF m = NULL THEN Throw(c, TypeError)
    ELSE [c EXCEPT !.await = which, !.req = text, !.requests = Append(@, text)]

\* `if (!doesCache2Exist && !model)` of classify and compareSentenceToArray.
Gate(flag, m) == ~(~flag /\ m = NULL)

\* classify() called with doesCache1Exist false on every iteration.
EnterClassifyUncached(c, item) ==
    [c EXCEPT !.s2 = SentenceTwoOf(item), !.c1 = FALSE,
              !.e2c = EmbeddingOf(item),
              !.e1 = NoEmbedding, !.e2 = NoEmbedding, !.pc = "cl_gate"]

\* The test of classify written on the embedding handed in, not on the flag.
UsesCache2IfSupplied(c) == c.e2c # NoEmbedding

\* `if (doesCache2Exist)` of classify: embedding2 = embedding2Cache.
UsesCache2(c) == c.flag

\* One iteration's classify() arguments, for compareSentenceToArray and getTop.
EnterClassify(c, item) ==
    IF c.op = "getTop"
    THEN [c EXCEPT !.s2 = Raw(item), !.c1 = (c.i # 0), !.e2c = NoEmbedding,
                   !.e1 = NoEmbedding, !.e2 = NoEmbedding, !.pc = "cl_gate"]
    ELSE [c EXCEPT !.s2 = SentenceTwoOf(item), !.c1 = (c.i # 0),
                   !.e2c = EmbeddingOf(item),
                   !.e1 = NoEmbedding, !.e2 = NoEmbedding, !.pc = "cl_gate"]

\* getTop iterates the caller's array, the others their own copy.
LoopArray(c) == IF c.op = "getTop" THEN c.src ELSE c.ref

Sorting(op) == op \in {"arrayInOrder", "cachedArrayInOrder"}

Finish(c, h, out) ==
    [c |-> [c EXCEPT !.status = "ok", !.pc = "", !.out = out, !.result = h[out]],
     h |-> h]

\* Runs the call until it is suspended on the provider or has finished.
RECURSIVE Run(_, _, _)
Run(c, h, m) ==
    IF c.status # "running" \/ c.await # "" THEN [c |-> c, h |-> h]
    ELSE CASE c.pc = "loop" ->
                 IF c.i < Len(h[LoopArray(c)])
                 THEN Run(EnterClassify(c, h[LoopArray(c)][c.i + 1]), h, m)
                 ELSE Run([c EXCEPT !.pc = "return"], h, m)
           [] c.pc = "gc_loop" ->
                 IF c.i < Len(h[c.ref])
                 THEN Run(CallModel(c, m, "emb", Raw(h[c.ref][c.i + 1])), h, m)
                 ELSE Finish(c, h, "returned")
           [] c.pc = "cl_gate" ->
                 IF Gate(c.flag, m) THEN Run([c EXCEPT !.pc = "cl_e1"], h, m)
                 ELSE Run(Throw(c, ModelNotLoaded), h, m)
           [] c.pc = "cl_e1" ->
                 IF c.c1 THEN Run([c EXCEPT !.e1 = c.cache, !.pc = "cl_e2"], h, m)
                 ELSE Run(CallModel(c, m, "emb1", Sentence), h, m)
           [] c.pc = "cl_e2" ->
                 IF UsesCache2(c)
                 THEN Run([c EXCEPT !.e2 = c.e2c, !.pc = "cl_sim"], h, m)
                 ELSE Run(CallModel(c, m, "emb2", c.s2), h, m)
           [] c.pc = "cl_sim" ->
                 IF c.e1 = NoEmbedding \/ c.e2 = NoEmbedding
                 THEN Run(Throw(c, TypeError), h, m)
                 ELSE Run([c EXCEPT !.alike = calculateCosineSimilarity(c.e1, c.e2),
                                    !.scored = @ + 1,
                                    !.pc = "cl_ret"], h, m)
           [] c.pc = "cl_ret" ->
                 LET c1 == [c EXCEPT !.cache = IF c.i = 0 THEN c.e1 ELSE @,
                                     !.i = @ + 1, !.pc = "loop"]
                     r == [sentenceTwo |-> c.s2, alike |-> c.alike]
                 IN  CASE c.op = "compareTwoSentences" ->
                              [c |-> [c EXCEPT !.status = "ok", !.pc = ""], h |-> h]
                       [] c.op = "getTop" ->
                              LET l == addNode(c.list, r)
                              IN  IF l.crashed
                                  THEN Run(Throw([c EXCEPT !.list = l], TypeError), h, m)
                                  ELSE Run([c1 EXCEPT !.list = l], h, m)
                       [] OTHER -> Run(c1, Store(h, c.ref, c.i, r), m)
           [] c.pc = "return" ->
                 IF c.op = "getTop"
                 THEN Finish(c, [h EXCEPT !["returned"] = getArray(c.list)], "returned")
                 ELSE IF Sorting(c.op)
                 THEN Finish(c, [h EXCEPT ![c.ref] = Sort(h[c.ref])], c.ref)
                 ELSE Finish(c, h, c.ref)

\* No validation at all.
ValidateNothing(s) == ""

\* The map() of the cached operations: the first entry, in order, that has no
\* sentenceTwo throws; an entry whose embedding cannot be spread is a TypeError.
RECURSIVE ValidateCached(_)
ValidateCached(s) ==
    IF s = <<>> THEN ""
    ELSE IF ~("sentenceTwo" \in DOMAIN Head(s)) \/ Head(s).sentenceTwo = ""
    THEN InvalidCacheEntry
    ELSE IF EmbeddingOf(Head(s)) = NoEmbedding THEN TypeError
    ELSE ValidateCached(Tail(s))


\* A call as it stands right after the invocation started.
Fresh(op, src, flag, k, m) ==
    [IdleCall EXCEPT !.op = op, !.status = "running", !.src = src, !.ref = src,
                     !.flag = flag, !.k = k, !.loadedAtStart = (m # NULL)]

Min(a, b) == IF a < b THEN a ELSE b

\* compareSentenceToArray(sentence, array, doesCache2Exist), from its first line.
EnterCompare(c, h, m) ==
    IF ~Gate(c.flag, m) THEN [c |-> Throw(c, ModelNotLoaded), h |-> h]
    ELSE Run([c EXCEPT !.ref = SpreadCopy(c.ref, "copyB"), !.i = 0, !.pc = "loop"],
             Allocate(h, c.ref, "copyB"), m)

compareTwoSentences(t, h, m) ==
    LET c == Fresh("compareTwoSentences", "array", FALSE, 0, m)
    IN  IF m = NULL THEN [c |-> Throw(c, ModelNotLoaded), h |-> h]
        ELSE Run([c EXCEPT !.s2 = t, !.c1 = FALSE, !.pc = "cl_gate"], h, m)

compareSentenceToArray(src, flag, h, m) ==
    EnterCompare(Fresh("compareSentenceToArray", src, flag, 0, m), h, m)

arrayInOrder(src, h, m) ==
    LET c == Fresh("arrayInOrder", src, FALSE, 0, m)
    IN  IF m = NULL THEN [c |-> Throw(c, ModelNotLoaded), h |-> h]
        ELSE EnterCompare([c EXCEPT !.ref = SpreadCopy(src, "copyA")],
                          Allocate(h, src, "copyA"), m)

getCached(src, h, m) ==
    LET c == Fresh("getCached", src, FALSE, 0, m)
    IN  IF m = NULL THEN [c |-> Throw(c, ModelNotLoaded), h |-> h]
        ELSE Run([c EXCEPT !.ref = SpreadCopy(src, "copyA"), !.i = 0, !.pc = "gc_loop"],
                 Allocate(h, src, "copyA"), m)

cachedCompareSentenceToArray(src, h, m) ==
    LET c == Fresh("cachedCompareSentenceToArray", src, TRUE, 0, m)
        e == ValidateCached(h[src])
    IN  IF e # "" THEN [c |-> Throw(c, e), h |-> h]
        ELSE EnterCompare(c, h, m)

cachedArrayInOrder(src, h, m) ==
    LET c == Fresh("cachedArrayInOrder", src, TRUE, 0, m)
        e == ValidateCached(h[src])
    IN  IF e # "" THEN [c |-> Throw(c, e), h |-> h]
        ELSE EnterCompare(c, h, m)

\* getTop with the test written numberOfResults < 0.
getTopStrictK(src, k, h, m) ==
    LET c == Fresh("getTop", src, FALSE, k, m)
    IN  IF m = NULL THEN [c |-> Throw(c, ModelNotLoaded), h |-> h]
        ELSE IF k < 0 THEN [c |-> Throw(c, InvalidK), h |-> h]
        ELSE Run([c EXCEPT !.ref = SpreadCopy(src, "copyA"),
                           !.list = NewList(Min(k, Len(h[src]))),
                           !.i = 0, !.pc = "loop"],
                 Allocate(h, src, "copyA"), m)

getTop(src, k, h, m) ==
    LET c == Fresh("getTop", src, FALSE, k, m)
    IN  IF m = NULL THEN [c |-> Throw(c, ModelNotLoaded), h |-> h]
        ELSE IF k <= 0 THEN [c |-> Throw(c, InvalidK), h |-> h]
        ELSE Run([c EXCEPT !.ref = SpreadCopy(src, "copyA"),
                           !.list = NewList(Min(k, Len(h[src]))),
                           !.i = 0, !.pc = "loop"],
                 Allocate(h, src, "copyA"), m)

-----------------------------------------------------------------------------
(* loadModel and PipelineSingleton *)

ProgressData == {"initiate", "done"}

\* A getInstance that calls pipeline() again when the instance it holds was
\* rejected.
LoadModelAnew ==
    /\ Len(loaders) < MaxLoads
    /\ IF instance \in {NULL, "rejected"}
       THEN instance' = "pending" /\ pipelineCalls' = pipelineCalls + 1
       ELSE UNCHANGED <<instance, pipelineCalls>>
    /\ loaders' = Append(loaders, "awaiting")
    /\ UNCHANGED <<model, progress, heap, call, prev, ranker, fed, reported,
                   observed, cosine>>

\* loadModel(): getInstance() calls pipeline() when instance is null, and the
\* call is suspended on the promise.
LoadModel ==
    /\ Len(loaders) < MaxLoads
    /\ IF instance = NULL
       THEN instance' = "pending" /\ pipelineCalls' = pipelineCalls + 1
       ELSE UNCHANGED <<instance, pipelineCalls>>
    /\ loaders' = Append(loaders, "awaiting")
    /\ UNCHANGED <<model, progress, heap, call, prev, ranker, fed, reported,
                   observed, cosine>>

\* The callback handed to pipeline(): progress = data.
ProgressCallback ==
    /\ instance = "pending"
    /\ \E data \in ProgressData : progress' = data /\ reported' = data
    /\ UNCHANGED <<instance, model, loaders, pipelineCalls, heap, call, prev,
                   ranker, fed, observed, cosine>>

PipelineResolve ==
    /\ instance = "pending"
    /\ instance' = "resolved"
    /\ UNCHANGED <<model, progress, loaders, pipelineCalls, heap, call, prev,
                   ranker, fed, reported, observed, cosine>>

PipelineReject ==
    /\ instance = "pending"
    /\ instance' = "rejected"
    /\ UNCHANGED <<model, progress, loaders, pipelineCalls, heap, call, prev,
                   ranker, fed, reported, observed, cosine>>

\* The await of loadModel returns: model is assigned, or the rejection is
\* rethrown as "Unable to load Model due to ...".
LoadModelResume ==
    \E l \in 1..Len(loaders) :
        /\ loaders[l] = "awaiting"
        /\ instance \in {"resolved", "rejected"}
        /\ IF instance = "resolved"
           THEN model' = "pipe" /\ loaders' = [loaders EXCEPT ![l] = "ok"]
           ELSE model' = model /\ loaders' = [loaders EXCEPT ![l] = "failed"]
        /\ UNCHANGED <<instance, progress, pipelineCalls, heap, call, prev,
                       ranker, fed, reported, observed, cosine>>

\* getProgress(): return progress.
getProgressNever(p) == NULL

getProgress(p) == p

NoRead == [n |-> 0, value |-> NULL, latest |-> NULL]

\* The caller calls getProgress() for the n-th time and keeps what it got,
\* next to what the latest callback invocation had been given.
GetProgress ==
    /\ observed.n < MaxReads
    /\ observed' = [n |-> observed.n + 1, value |-> getProgress(progress),
                    latest |-> reported]
    /\ UNCHANGED <<instance, model, progress, loaders, pipelineCalls, heap, call,
                   prev, ranker, fed, reported, cosine>>

-----------------------------------------------------------------------------
(* Invocations and the provider's answers *)

\* The heap a new invocation finds: the arrays of the last call are garbage.
Cleared(h) ==
    [h EXCEPT !["copyA"] = <<>>, !["copyB"] = <<>>, !["returned"] = <<>>]

\* What the caller has in hand of a call that settled.
Outcome(c) ==
    [op |-> c.op, status |-> c.status, error |-> c.error, src |-> c.src,
     flag |-> c.flag, k |-> c.k, out |-> c.out, result |-> c.result, at |-> c.at]

NoOutcome == Outcome(IdleCall)

\* The caller invokes an operation once the last one has settled.  With
\* `keep` the caller keeps the outcome of the call before it, and invokes no
\* third operation.
Begin(r, keep) ==
    /\ call.status # "running"
    /\ keep => prev = NoOutcome
    /\ call' = r.c
    /\ heap' = r.h
    /\ prev' = IF keep THEN Outcome(call) ELSE NoOutcome
    /\ UNCHANGED <<instance, model, progress, loaders, pipelineCalls, ranker, fed,
                   reported, observed, cosine>>

CompareTwoSentences(keep) ==
    \E t \in Texts : Begin(compareTwoSentences(t, Cleared(heap), model), keep)

CompareSentenceToArray(keep) ==
    \E src \in {"array", "cachedArray"}, flag \in BOOLEAN :
        Begin(compareSentenceToArray(src, flag, Cleared(heap), model), keep)

ArrayInOrder(keep) == Begin(arrayInOrder("array", Cleared(heap), model), keep)

GetCached(keep) == Begin(getCached("array", Cleared(heap), model), keep)

CachedCompareSentenceToArray(keep) ==
    Begin(cachedCompareSentenceToArray("cachedArray", Cleared(heap), model), keep)

CachedArrayInOrder(keep) ==
    Begin(cachedArrayInOrder("cachedArray", Cleared(heap), model), keep)

GetTop(keep) ==
    \E k \in -1..(MaxLen + 1) : Begin(getTop("array", k, Cleared(heap), model), keep)

\* What the continuation does with the embedding once the await returns.
Resume(c, h, emb) ==
    CASE c.await = "emb1" ->
             [c |-> [c EXCEPT !.e1 = emb, !.await = "", !.pc = "cl_e2"], h |-> h]
      [] c.await = "emb2" ->
             [c |-> [c EXCEPT !.e2 = emb, !.await = "", !.pc = "cl_sim"], h |-> h]
      [] c.await = "emb" ->
             [c |-> [c EXCEPT !.await = "", !.i = @ + 1, !.pc = "gc_loop"],
              h |-> Store(h, "returned", c.i,
                          Entry(Raw(h[c.ref][c.i + 1]), emb))]

\* The promise of the outstanding request settles: one more request of the
\* call has had its answer.
Settle(c) == [c EXCEPT !.answered = @ + 1]

\* The provider answers the outstanding request.
ProviderRespond ==
    /\ call.status = "running"
    /\ call.await # ""
    /\ LET s == Resume(Settle(call), heap, Embed(call.req))
           r == Run(s.c, s.h, model)
       IN  call' = r.c /\ heap' = r.h
    /\ UNCHANGED <<instance, model, progress, loaders, pipelineCalls, prev,
                   ranker, fed, reported, observed, cosine>>

\* The provider rejects the outstanding request: the await throws.
ProviderReject ==
    /\ call.status = "running"
    /\ call.await # ""
    /\ call' = Reject(Settle(call))
    /\ UNCHANGED <<instance, model, progress, loaders, pipelineCalls, heap, prev,
                   ranker, fed, reported, observed, cosine>>

-----------------------------------------------------------------------------
(* The caller's inputs *)

StringArrays(maxLen) ==
    UNION {[1..n -> {Str(t) : t \in Texts}] : n \in 0..maxLen}

\* The cache entries of the same texts; entry `bad`, if any, has lost its
\* sentenceTwo.
CachedFor(arr, bad) ==
    [i \in 1..Len(arr) |->
        Entry(IF i = bad THEN "" ELSE arr[i].str, Embed(arr[i].str))]

InitHeap(arr, bad) ==
    [r \in Refs |-> CASE r = "array" -> arr
                      [] r = "cachedArray" -> CachedFor(arr, bad)
                      [] OTHER -> <<>>]

EmptyHeap == [r \in Refs |-> <<>>]

-----------------------------------------------------------------------------
(* Specifications *)

\* The module right after it was imported; the caller holds its two arrays.
Init ==
    /\ instance = NULL
    /\ model = NULL
    /\ progress = NULL
    /\ loaders = <<>>
    /\ pipelineCalls = 0
    /\ \E arr \in StringArrays(MaxLenLoading) : \E bad \in 0..Len(arr) : heap = InitHeap(arr, bad)
    /\ call = IdleCall
    /\ prev = NoOutcome
    /\ ranker = NewList(0)
    /\ fed = <<>>
    /\ reported = NULL
    /\ observed = NoRead
    /\ cosine = NoCosine

Next ==
    \/ LoadModel
    \/ ProgressCallback
    \/ PipelineResolve
    \/ PipelineReject
    \/ LoadModelResume
    \/ CompareTwoSentences(FALSE)
    \/ CompareSentenceToArray(FALSE)
    \/ ArrayInOrder(FALSE)
    \/ GetCached(FALSE)
    \/ CachedCompareSentenceToArray(FALSE)
    \/ CachedArrayInOrder(FALSE)
    \/ GetTop(FALSE)
    \/ ProviderRespond
    \/ ProviderReject

Spec == Init /\ [][Next]_vars

\* The module after one loadModel() has succeeded and no other is pending;
\* the caller invokes two operations, one after the other.
InitLoaded ==
    /\ instance = "resolved"
    /\ model = "pipe"
    /\ progress = NULL
    /\ loaders = <<"ok">>
    /\ pipelineCalls = 1
    /\ \E arr \in StringArrays(MaxLen) : \E bad \in 0..Len(arr) : heap = InitHeap(arr, bad)
    /\ call = IdleCall
    /\ prev = NoOutcome
    /\ ranker = NewList(0)
    /\ fed = <<>>
    /\ reported = NULL
    /\ observed = NoRead
    /\ cosine = NoCosine

NextLoaded ==
    \/ CompareTwoSentences(TRUE)
    \/ CompareSentenceToArray(TRUE)
    \/ ArrayInOrder(TRUE)
    \/ GetCached(TRUE)
    \/ CachedCompareSentenceToArray(TRUE)
    \/ CachedArrayInOrder(TRUE)
    \/ GetTop(TRUE)
    \/ ProviderRespond
    \/ ProviderReject

SpecLoaded == InitLoaded /\ [][NextLoaded]_vars

\* A LinkedListInAlikeOrder of capacity 1..MaxCapacity fed up to MaxFeed
\* scored candidates; candidate n carries the text "n".
Scores == {-1, 0, 1}

InitRanker ==
    /\ instance = NULL
    /\ model = NULL
    /\ progress = NULL
    /\ loaders = <<>>
    /\ pipelineCalls = 0
    /\ heap = EmptyHeap
    /\ call = IdleCall
    /\ prev = NoOutcome
    /\ \E maxLength \in 1..MaxCapacity : ranker = NewList(maxLength)
    /\ fed = <<>>
    /\ reported = NULL
    /\ observed = NoRead
    /\ cosine = NoCosine

RankerAddNode ==
    /\ Len(fed) < MaxFeed
    /\ ~ranker.crashed
    /\ \E alike \in Scores :
        /\ ranker' = addNode(ranker, [sentenceTwo |-> ToString(Len(fed) + 1),
                                      alike |-> alike])
        /\ fed' = Append(fed, alike)
    /\ UNCHANGED <<instance, model, progress, loaders, pipelineCalls, heap, call,
                   prev, reported, observed, cosine>>

\* The caller calls ranker.getArray() and keeps the array, next to the one
\* the call before returned; `at` is the number of addNode calls made so far.
RankerGetArray ==
    /\ ~ranker.crashed
    /\ call' = [IdleCall EXCEPT !.op = "getArray", !.status = "ok",
                                !.out = "returned", !.result = getArray(ranker),
                                !.at = Len(fed)]
    /\ prev' = Outcome(call)
    /\ heap' = [heap EXCEPT !["returned"] = getArray(ranker)]
    /\ UNCHANGED <<instance, model, progress, loaders, pipelineCalls, ranker, fed,
                   reported, observed, cosine>>

NextRanker ==
    \/ RankerAddNode
    \/ RankerGetArray

SpecRanker == InitRanker /\ [][NextRanker]_vars

\* The module right after it was imported: loadModel calls, the pipeline's
\* progress callbacks and the caller's getProgress calls, in any order.
InitProgress ==
    /\ instance = NULL
    /\ model = NULL
    /\ progress = NULL
    /\ loaders = <<>>
    /\ pipelineCalls = 0
    /\ heap = EmptyHeap
    /\ call = IdleCall
    /\ prev = NoOutcome
    /\ ranker = NewList(0)
    /\ fed = <<>>
    /\ reported = NULL
    /\ observed = NoRead
    /\ cosine = NoCosine

NextProgress ==
    \/ LoadModel
    \/ ProgressCallback
    \/ PipelineResolve
    \/ PipelineReject
    \/ LoadModelResume
    \/ GetProgress

SpecProgress == InitProgress /\ [][NextProgress]_vars

\* An embedding of text that the provider would not give for it: the caller's
\* own vector, with another score against Sentence.
Stale(text) == IF text = "a" THEN <<0, 1>> ELSE <<1, 0>>

\* A candidate is a string or an entry; an entry carries the provider's
\* embedding of its text or the caller's own.
Candidates ==
    {Str(t) : t \in Texts} \cup {Entry(t, Embed(t)) : t \in Texts}
    \cup {Entry(t, Stale(t)) : t \in Texts}

MixedArrays == UNION {[1..n -> Candidates] : n \in 0..MaxLenSupplied}

\* The model is loaded and the caller calls compareSentenceToArray, with
\* either flag, on an array of strings and entries mixed.
InitSupplied ==
    /\ instance = "resolved"
    /\ model = "pipe"
    /\ progress = NULL
    /\ loaders = <<"ok">>
    /\ pipelineCalls = 1
    /\ \E arr \in MixedArrays : heap = [EmptyHeap EXCEPT !["array"] = arr]
    /\ call = IdleCall
    /\ prev = NoOutcome
    /\ ranker = NewList(0)
    /\ fed = <<>>
    /\ reported = NULL
    /\ observed = NoRead
    /\ cosine = NoCosine

NextSupplied ==
    \/ \E flag \in BOOLEAN :
          Begin(compareSentenceToArray("array", flag, Cleared(heap), model), FALSE)
    \/ ProviderRespond
    \/ ProviderReject

SpecSupplied == InitSupplied /\ [][NextSupplied]_vars

\* The model is loaded, the caller invokes one operation after the other, and
\* the provider settles every request it is sent.
InitLive ==
    /\ instance = "resolved"
    /\ model = "pipe"
    /\ progress = NULL
    /\ loaders = <<"ok">>
    /\ pipelineCalls = 1
    /\ \E arr \in StringArrays(MaxLenLive) : \E bad \in 0..Len(arr) :
          heap = InitHeap(arr, bad)
    /\ call = IdleCall
    /\ prev = NoOutcome
    /\ ranker = NewList(0)
    /\ fed = <<>>
    /\ reported = NULL
    /\ observed = NoRead
    /\ cosine = NoCosine

NextLive ==
    \/ CompareTwoSentences(FALSE)
    \/ CompareSentenceToArray(FALSE)
    \/ ArrayInOrder(FALSE)
    \/ GetCached(FALSE)
    \/ CachedCompareSentenceToArray(FALSE)
    \/ CachedArrayInOrder(FALSE)
    \/ GetTop(FALSE)
    \/ ProviderRespond
    \/ ProviderReject

SpecLive ==
    InitLive /\ [][NextLive]_vars /\ WF_vars(ProviderReject \/ ProviderRespond)

\* The caller still holds the array it passed to the call in flight and,
\* while the call is suspended on the provider, pushes an element on it,
\* pops one off it, or assigns one of its elements.
Suspended == call.status = "running" /\ call.await # ""

CallerPush ==
    /\ Suspended
    /\ Len(heap["array"]) <= MaxLenShared
    /\ \E t \in Texts : heap' = [heap EXCEPT !["array"] = Append(@, Str(t))]
    /\ UNCHANGED <<instance, model, progress, loaders, pipelineCalls, call, prev,
                   ranker, fed, reported, observed, cosine>>

CallerPop ==
    /\ Suspended
    /\ heap["array"] # <<>>
    /\ heap' = [heap EXCEPT !["array"] = SubSeq(@, 1, Len(@) - 1)]
    /\ UNCHANGED <<instance, model, progress, loaders, pipelineCalls, call, prev,
                   ranker, fed, reported, observed, cosine>>

CallerAssign ==
    /\ Suspended
    /\ \E i \in 1..Len(heap["array"]), t \in Texts :
          /\ heap["array"][i] # Str(t)
          /\ heap' = [heap EXCEPT !["array"][i] = Str(t)]
    /\ UNCHANGED <<instance, model, progress, loaders, pipelineCalls, call, prev,
                   ranker, fed, reported, observed, cosine>>

\* The model is loaded; the caller calls getTop and touches its array while
\* the call is suspended.
InitShared ==
    /\ instance = "resolved"
    /\ model = "pipe"
    /\ progress = NULL
    /\ loaders = <<"ok">>
    /\ pipelineCalls = 1
    /\ \E arr \in StringArrays(MaxLenShared) : heap = InitHeap(arr, 0)
    /\ call = IdleCall
    /\ prev = NoOutcome
    /\ ranker = NewList(0)
    /\ fed = <<>>
    /\ reported = NULL
    /\ observed = NoRead
    /\ cosine = NoCosine

NextShared ==
    \/ \E k \in 1..MaxLenShared :
          /\ call.status = "idle"
          /\ Begin(getTop("array", k, Cleared(heap), model), FALSE)
    \/ CallerPush
    \/ CallerPop
    \/ CallerAssign
    \/ ProviderRespond
    \/ ProviderReject

SpecShared == InitShared /\ [][NextShared]_vars

\* Embeddings a caller can put in a cache entry for text: the provider's, one
\* coordinate short, or one coordinate long.
HandMade(text) ==
    {Embed(text), SubSeq(Embed(text), 1, Len(Embed(text)) - 1),
     Append(Embed(text), 1)}

CacheEntries == UNION {{Entry(t, e) : e \in HandMade(t)} : t \in Texts}

CachedArrays == UNION {[1..n -> CacheEntries] : n \in 0..MaxLenCached}

\* The model is loaded and the caller calls the cached operations on a cached
\* list it made by hand.
InitCached ==
    /\ instance = "resolved"
    /\ model = "pipe"
    /\ progress = NULL
    /\ loaders = <<"ok">>
    /\ pipelineCalls = 1
    /\ \E arr \in CachedArrays : heap = [EmptyHeap EXCEPT !["cachedArray"] = arr]
    /\ call = IdleCall
    /\ prev = NoOutcome
    /\ ranker = NewList(0)
    /\ fed = <<>>
    /\ reported = NULL
    /\ observed = NoRead
    /\ cosine = NoCosine

NextCached ==
    \/ CachedCompareSentenceToArray(FALSE)
    \/ CachedArrayInOrder(FALSE)
    \/ ProviderRespond
    \/ ProviderReject

SpecCached == InitCached /\ [][NextCached]_vars

\* calculateCosineSimilarity called both ways round on a pair of embeddings
\* of integer coordinates, of equal length or not.
Vectors == UNION {[1..n -> -MaxCoord..MaxCoord] : n \in 0..MaxDim}

InitCosine ==
    /\ instance = NULL
    /\ model = NULL
    /\ progress = NULL
    /\ loaders = <<>>
    /\ pipelineCalls = 0
    /\ heap = EmptyHeap
    /\ call = IdleCall
    /\ prev = NoOutcome
    /\ ranker = NewList(0)
    /\ fed = <<>>
    /\ reported = NULL
    /\ observed = NoRead
    /\ \E a, b \in Vectors : cosine = [NoCosine EXCEPT !.a = a, !.b = b]

NextCosine ==
    \/ CosineForward
    \/ CosineBackward

SpecCosine == InitCosine /\ [][NextCosine]_vars

-----------------------------------------------------------------------------
(* Properties *)

Settled(c) == c.status \in {"ok", "error"}

CallerArrays == {"array", "cachedArray"}

\* The score of a text against Sentence, from the provider's embeddings.
Similarity(text) ==
    CASE text = "a" -> 1
      [] text = "b" -> 0
      [] text = "c" -> 0
      [] OTHER -> -1

\* The node numbers of a list from head to tail: node n holds the n-th
\* candidate passed to addNode.
RECURSIVE ArrivalsFrom(_, _)
ArrivalsFrom(list, currentNode) ==
    IF currentNode = NoNode THEN <<>>
    ELSE <<currentNode>> \o ArrivalsFrom(list, list.nodes[currentNode].next)

Arrivals(list) == ArrivalsFrom(list, list.head)

\* Some entry of the cached list has no usable sentenceTwo.
LacksText(s) == \E i \in 1..Len(s) : s[i].sentenceTwo = ""

\* C1: for 1 <= k <= items.length the result of getTop equals, element by
\* element, the first k elements of the result of arrayInOrder on the same
\* inputs (the call before it).
C1_TopKIsPrefixOfRankAll ==
    (/\ prev.op = "arrayInOrder" /\ prev.status = "ok"
     /\ call.op = "getTop" /\ call.status = "ok"
     /\ 1 <= call.k /\ call.k <= Len(heap["array"]))
    => call.result = SubSeq(prev.result, 1, call.k)

\* C2: of two retained candidates with equal score the one passed to addNode
\* earlier is nearer the head; capacity 2 fed 0.3, 0.9, 0.1, 0.9 (here 0, 1,
\* -1, 1) ends as [first 0.9, second 0.9], candidates 2 and 4.
C2_TiesKeepArrivalOrder ==
    LET a == Arrivals(ranker)
    IN  /\ \A i, j \in 1..Len(a) :
              (i < j /\ ranker.nodes[a[i]].alike = ranker.nodes[a[j]].alike)
              => a[i] < a[j]
        /\ (ranker.maxLength = 2 /\ fed = <<0, 1, -1, 1>>) => a = <<2, 4>>

\* C3: every operation invoked while the model is not loaded fails with
\* ModelNotLoaded and returns no result, the cached operations included, for
\* every cached list that passes their validation.
C3_NotReadyFailsModelNotLoaded ==
    (/\ Settled(call)
     /\ ~call.loadedAtStart
     /\ ~(call.src = "array" /\ call.flag)
     /\ (call.src = "cachedArray" => ~LacksText(heap["cachedArray"])))
    => (call.status = "error" /\ call.error = ModelNotLoaded /\ call.result = <<>>)

\* C4: a provider request is made or outstanding only in a call that found
\* the model loaded when it started.
C4_RequestsOnlyWhenLoaded ==
    (call.await # "" \/ call.requests # <<>>) => (call.loadedAtStart /\ model # NULL)

C4_Witness ==
    /\ call.op = "cachedCompareSentenceToArray"
    /\ call.await = "emb1"
    /\ \E l \in 1..Len(loaders) : loaders[l] = "awaiting"

\* C5 as stated: getTop with k <= 0 fails with InvalidK and makes no provider
\* request, whatever the load state.
C5_NonPositiveKFailsInvalidK ==
    (call.op = "getTop" /\ call.k <= 0)
    => (/\ call.requests = <<>> /\ call.await = ""
        /\ call.status = "error" /\ call.error = InvalidK)

\* C5 amended: getTop with k <= 0 fails without any provider request, with
\* InvalidK when the model was loaded and with ModelNotLoaded when it was not.
C5_NonPositiveKFailsWithoutRequest ==
    (call.op = "getTop" /\ call.k <= 0)
    => (/\ call.requests = <<>> /\ call.await = ""
        /\ call.status = "error"
        /\ call.error = IF call.loadedAtStart THEN InvalidK ELSE ModelNotLoaded)

C5_Witness ==
    /\ call.op = "getTop" /\ call.k = 0 /\ call.error = InvalidK
    /\ Len(heap["array"]) = 2

\* C6: with the model loaded and k >= 1, getTop returns exactly
\* min(k, items.length) results; an empty items array gives an empty result.
C6_TopKReturnsMinOfKAndLength ==
    (call.op = "getTop" /\ call.loadedAtStart /\ call.k >= 1 /\ Settled(call)
     /\ call.error # ProviderError)
    => (call.status = "ok" /\ Len(call.result) = Min(call.k, Len(heap["array"])))

C6_Witness ==
    /\ call.op = "getTop" /\ call.status = "ok"
    /\ Len(heap["array"]) = 2 /\ call.k = 3 /\ Len(call.result) = 2

\* r is s ordered by score descending, equal scores in the order they have
\* in s.
StableDescendingOf(r, s) ==
    /\ Len(r) = Len(s)
    /\ \E p \in [1..Len(s) -> 1..Len(s)] :
          /\ \A i, j \in 1..Len(s) : i # j => p[i] # p[j]
          /\ \A i \in 1..Len(s) : r[i] = s[p[i]]
          /\ \A i, j \in 1..Len(s) :
                i < j => \/ r[i].alike > r[j].alike
                         \/ (r[i].alike = r[j].alike /\ p[i] < p[j])

\* C7: the result of arrayInOrder is the result of compareSentenceToArray
\* (precached = false) on the same inputs ordered by score descending, equal
\* scores keeping their input order; likewise cachedArrayInOrder and
\* cachedCompareSentenceToArray.
C7_RankAllIsStableSortOfCompare ==
    /\ (/\ prev.op = "compareSentenceToArray" /\ prev.src = "array" /\ ~prev.flag
        /\ prev.status = "ok"
        /\ call.op = "arrayInOrder" /\ Settled(call) /\ call.error # ProviderError)
       => (call.status = "ok" /\ StableDescendingOf(call.result, prev.result))
    /\ (/\ prev.op = "cachedCompareSentenceToArray" /\ prev.status = "ok"
        /\ call.op = "cachedArrayInOrder" /\ Settled(call)
        /\ call.error # ProviderError)
       => (call.status = "ok" /\ StableDescendingOf(call.result, prev.result))

C7_Witness ==
    /\ prev.op = "compareSentenceToArray" /\ prev.status = "ok"
    /\ call.op = "arrayInOrder" /\ call.status = "ok"
    /\ prev.result = <<[sentenceTwo |-> "c", alike |-> 0],
                       [sentenceTwo |-> "b", alike |-> 0],
                       [sentenceTwo |-> "a", alike |-> 1]>>
    /\ call.result = <<[sentenceTwo |-> "a", alike |-> 1],
                       [sentenceTwo |-> "c", alike |-> 0],
                       [sentenceTwo |-> "b", alike |-> 0]>>

\* C8: the cached operations, given a list with an entry (at any position)
\* without a usable sentenceTwo, fail with InvalidCacheEntry before any score
\* is computed and before any provider request; no result is returned.
C8_InvalidCacheEntryBeforeScoring ==
    (/\ call.op \in {"cachedCompareSentenceToArray", "cachedArrayInOrder"}
     /\ LacksText(heap["cachedArray"]))
    => (/\ call.status = "error" /\ call.error = InvalidCacheEntry
        /\ call.scored = 0 /\ call.requests = <<>> /\ call.await = ""
        /\ call.result = <<>> /\ call.out = "")

C8_Witness ==
    /\ call.op = "cachedArrayInOrder" /\ call.error = InvalidCacheEntry
    /\ model # NULL
    /\ Len(heap["cachedArray"]) = 2
    /\ heap["cachedArray"][1].sentenceTwo # ""
    /\ heap["cachedArray"][2].sentenceTwo = ""

\* C9: no operation changes the caller's arrays (same length, same elements
\* in the same positions, whether the call succeeds or fails), and the array
\* an operation returns is not one of the caller's.
C9_CallerArraysUntouched ==
    [][/\ heap'["array"] = heap["array"]
       /\ heap'["cachedArray"] = heap["cachedArray"]
       /\ (call'.status = "ok" /\ call'.op # "compareTwoSentences")
          => call'.out \in Refs \ CallerArrays]_vars

C9_Witness ==
    /\ call.op = "compareSentenceToArray" /\ call.status = "ok"
    /\ call.src = "cachedArray" /\ call.flag
    /\ Len(call.result) = 2
    /\ heap[call.out] # heap[call.src]

\* C10: compareSentenceToArray over N candidates returns N entries, entry i
\* with the text of candidate i (the string, or the sentenceTwo of an entry)
\* and the score of Sentence against candidate i.
C10_CompareKeepsOrderAndLength ==
    (call.op = "compareSentenceToArray" /\ Settled(call)
     /\ call.error # ProviderError
     /\ ~(call.src = "array" /\ call.flag)
     /\ (call.src = "cachedArray" => ~LacksText(heap["cachedArray"])))
    => /\ call.status = "ok"
       /\ Len(call.result) = Len(heap[call.src])
       /\ \A i \in 1..Len(heap[call.src]) :
             LET x == heap[call.src][i]
                 text == IF call.src = "array" THEN x.str ELSE x.sentenceTwo
             IN  /\ call.result[i].sentenceTwo = text
                 /\ call.result[i].alike = Similarity(text)

C10_Witness ==
    /\ call.op = "compareSentenceToArray" /\ call.status = "ok"
    /\ call.src = "cachedArray" /\ ~call.flag
    /\ call.result = <<[sentenceTwo |-> "b", alike |-> 0],
                       [sentenceTwo |-> "a", alike |-> 1],
                       [sentenceTwo |-> "c", alike |-> 0]>>

\* C11: caching is transparent.  getCached returns one {sentenceTwo,
\* embedding} entry per item, in input order (it is the caller's cached list
\* whenever that list has lost no text); cachedCompareSentenceToArray on that
\* list returns what compareSentenceToArray (precached = false) returned on
\* the items, and cachedArrayInOrder what arrayInOrder returned.
C11_CachingIsTransparent ==
    /\ (call.op = "getCached" /\ Settled(call) /\ call.error # ProviderError)
       => /\ call.status = "ok"
          /\ Len(call.result) = Len(heap["array"])
          /\ \A i \in 1..Len(heap["array"]) :
                /\ DOMAIN call.result[i] = {"sentenceTwo", "embedding"}
                /\ call.result[i].sentenceTwo = heap["array"][i].str
                /\ call.result[i].embedding # NoEmbedding
          /\ ~LacksText(heap["cachedArray"]) => call.result = heap["cachedArray"]
    /\ (/\ ~LacksText(heap["cachedArray"])
        /\ prev.op = "compareSentenceToArray" /\ prev.src = "array" /\ ~prev.flag
        /\ prev.status = "ok"
        /\ call.op = "cachedCompareSentenceToArray" /\ Settled(call)
        /\ call.error # ProviderError)
       => (call.status = "ok" /\ call.result = prev.result)
    /\ (/\ ~LacksText(heap["cachedArray"])
        /\ prev.op = "arrayInOrder" /\ prev.status = "ok"
        /\ call.op = "cachedArrayInOrder" /\ Settled(call)
        /\ call.error # ProviderError)
       => (call.status = "ok" /\ call.result = prev.result)

C11_Witness ==
    /\ prev.op = "arrayInOrder" /\ prev.status = "ok"
    /\ call.op = "cachedArrayInOrder" /\ call.status = "ok"
    /\ heap["array"] = <<Str("b"), Str("c"), Str("a")>>
    /\ call.result = <<[sentenceTwo |-> "a", alike |-> 1],
                       [sentenceTwo |-> "b", alike |-> 0],
                       [sentenceTwo |-> "c", alike |-> 0]>>

\* The text an operation sends to the provider for item x of its array.
RequestedText(x) ==
    IF "str" \in DOMAIN x THEN x.str
    ELSE IF x.sentenceTwo # "" THEN x.sentenceTwo ELSE ObjectText

\* The provider requests a call makes when none of them fails: the reference
\* sentence, then the candidates in input order.
AllRequests(c) ==
    LET items == [i \in 1..Len(heap[c.src]) |-> RequestedText(heap[c.src][i])]
    IN  CASE c.op = "compareTwoSentences" -> <<Sentence, c.s2>>
          [] c.op = "getCached" -> items
          [] c.flag -> <<Sentence>>
          [] OTHER -> <<Sentence>> \o items

IsPrefix(s, t) == Len(s) <= Len(t) /\ s = SubSeq(t, 1, Len(s))

\* C12: when a provider request fails, at whatever candidate, the call fails
\* with that error and returns nothing; the requests it made are the ones up
\* to the failing one, each sent once, and the failed call makes no further
\* step: the only change after it is the caller's next invocation.
C12_ProviderFailureFailsWholeCall ==
    /\ [](call.error = ProviderError
          => /\ call.status = "error"
             /\ call.result = <<>> /\ call.out = "" /\ call.await = ""
             /\ call.requests # <<>>
             /\ IsPrefix(call.requests, AllRequests(call)))
    /\ [][call.error = ProviderError
          => (call' = call \/ prev' = Outcome(call))]_vars

C12_Witness ==
    /\ call.op = "getTop" /\ call.k = 2
    /\ call.status = "error" /\ call.error = ProviderError
    /\ heap["array"] = <<Str("b"), Str("a"), Str("c")>>
    /\ call.requests = <<Sentence, "b", "a">>

\* C13: once a loadModel call has failed ("Unable to load Model due to ...")
\* the model is still null and every operation invoked while it is null
\* fails with ModelNotLoaded, the cached operations on a valid cached list
\* included; once a loadModel call has succeeded the model is set in every
\* later state.
C13_FailedLoadKeepsFailingModelNotLoaded ==
    /\ (\E l \in 1..Len(loaders) : loaders[l] = "failed") => model = NULL
    /\ (\E l \in 1..Len(loaders) : loaders[l] = "ok") => model # NULL
    /\ (/\ \E l \in 1..Len(loaders) : loaders[l] = "failed"
        /\ Settled(call)
        /\ ~call.loadedAtStart
        /\ ~(call.src = "array" /\ call.flag)
        /\ (call.src = "cachedArray" => ~LacksText(heap["cachedArray"])))
       => (call.status = "error" /\ call.error = ModelNotLoaded)

\* C14: getProgress() returns null as long as no progress callback was
\* invoked and otherwise the data of the latest invocation, however the
\* callbacks and the getProgress calls interleave; a getProgress call changes
\* nothing of the module's state.
C14_GetProgressReturnsLatestCallbackData ==
    /\ [](observed.n > 0 => observed.value = observed.latest)
    /\ [][observed'.n # observed.n
          => UNCHANGED <<instance, model, progress, loaders, pipelineCalls>>]_vars

C14_Witness ==
    /\ observed.n = 2 /\ observed.value = "done"
    /\ reported = "initiate"
    /\ instance = "pending"

\* C15: for embeddings a and b of equal length, calculateCosineSimilarity(a, b)
\* and calculateCosineSimilarity(b, a) compute the same dot product, the same
\* product of magnitudes and return the same similarity (integer coordinates
\* up to MaxCoord, lengths up to MaxDim).
C15_CosineSimilarityIsSymmetric ==
    (/\ cosine.forward.done /\ cosine.backward.done
     /\ Len(cosine.a) = Len(cosine.b))
    => /\ cosine.forward.dotProduct = cosine.backward.dotProduct
       /\ cosine.forward.magnitude1 = cosine.backward.magnitude2
       /\ cosine.forward.magnitude2 = cosine.backward.magnitude1
       /\ cosine.forward.similarity = cosine.backward.similarity

C15_Witness ==
    /\ cosine.a = <<1, 1>> /\ cosine.b = <<-1, 0>>
    /\ cosine.forward.done /\ cosine.backward.done
    /\ cosine.forward.dotProduct = -1
    /\ cosine.backward.magnitude2 = 2

\* The scores of the retained candidates, head to tail.
RetainedScores(list) ==
    LET a == Arrivals(list) IN [i \in 1..Len(a) |-> list.nodes[a[i]].alike]

\* C16: after every addNode on a list of capacity K >= 1 the scores read
\* head to tail never increase, and both the length field and the number of
\* nodes reachable from head are at most K.
C16_RankerSortedAndWithinCapacity ==
    LET s == RetainedScores(ranker)
    IN  /\ ~ranker.crashed
        /\ \A i, j \in 1..Len(s) : i < j => s[i] >= s[j]
        /\ ranker.length <= ranker.maxLength
        /\ Len(s) <= ranker.maxLength

C16_Witness ==
    /\ ranker.maxLength = 2
    /\ fed = <<-1, 1, 0, 1>>
    /\ RetainedScores(ranker) = <<1, 1>>
    /\ ranker.length = 2

\* How many elements of s are greater than v, and how many equal v.
CountAbove(s, v) == Cardinality({i \in 1..Len(s) : s[i] > v})

CountOf(s, v) == Cardinality({i \in 1..Len(s) : s[i] = v})

Max(a, b) == IF a > b THEN a ELSE b

\* How many times the score v occurs among the m largest elements of s.
CountAmongLargest(s, m, v) == Min(CountOf(s, v), Max(0, m - CountAbove(s, v)))

\* C17: after N addNode calls on a list of capacity K >= 1 the list holds
\* min(N, K) candidates (length field and reachable nodes) and their scores
\* are, as a multiset, the min(N, K) largest of the N scores fed; the length
\* never decreases from one addNode to the next, and a full list stays full.
C17_RankerHoldsLargestScores ==
    /\ [](LET s == RetainedScores(ranker)
              m == Min(Len(fed), ranker.maxLength)
          IN  /\ ranker.length = m
              /\ Len(s) = m
              /\ \A v \in Scores : CountOf(s, v) = CountAmongLargest(fed, m, v))
    /\ [][/\ ranker'.length >= ranker.length
          /\ ranker.length = ranker.maxLength
             => ranker'.length = ranker'.maxLength]_vars

C17_Witness ==
    /\ ranker.maxLength = 2
    /\ fed = <<0, -1, 1, 0>>
    /\ RetainedScores(ranker) = <<1, 0>>

\* C18: on a full list, addNode of a candidate whose score is less than or
\* equal to the tail's leaves the retained candidates (texts, scores, order)
\* as they were; a candidate with a greater score is inserted at its sorted
\* position and the tail of before is evicted.
C18_FullRankerDiscardsNotGreaterThanTail ==
    [][(ranker.length = ranker.maxLength /\ fed' # fed)
       => LET alike == fed'[Len(fed')]
              before == Arrivals(ranker)
              after == Arrivals(ranker')
              new == Len(fed')
          IN  IF alike <= ranker.nodes[ranker.tail].alike
              THEN /\ after = before
                   /\ getArray(ranker') = getArray(ranker)
              ELSE /\ \E i \in 1..Len(after) :
                         /\ after[i] = new
                         /\ \A j \in 1..Len(after) :
                               /\ j < i => ranker'.nodes[after[j]].alike >= alike
                               /\ j > i => ranker'.nodes[after[j]].alike <= alike
                   /\ \A i \in 1..Len(after) : after[i] # ranker.tail
                   /\ Len(after) = Len(before)]_vars

\* The texts of the candidates of array s, in input order.
CandidateTexts(s) == [i \in 1..Len(s) |-> RequestedText(s[i])]

\* C19: a sweep over N >= 1 candidates that ends well has asked the provider
\* for the reference sentence once, first; compareSentenceToArray with
\* precached = false (arrayInOrder included) and getTop have then asked for
\* each candidate in input order, N + 1 requests in all, and the sweeps with
\* precached = true have asked for nothing else.
C19_ReferenceEmbeddedOncePerSweep ==
    (/\ call.status = "ok"
     /\ call.op \notin {"compareTwoSentences", "getCached", "none"}
     /\ Len(heap[call.src]) >= 1)
    => /\ call.requests[1] = Sentence
       /\ CountOf(call.requests, Sentence) = 1
       /\ IF call.flag
          THEN Len(call.requests) = 1
          ELSE /\ Len(call.requests) = Len(heap[call.src]) + 1
               /\ Tail(call.requests) = CandidateTexts(heap[call.src])

C19_Witness ==
    /\ call.op = "getTop" /\ call.status = "ok" /\ call.k = 1
    /\ heap["array"] = <<Str("c"), Str("a"), Str("c")>>
    /\ call.requests = <<Sentence, "c", "a", "c">>

\* Candidate x carries an embedding.
Supplied(x) == "embedding" \in DOMAIN x

\* The texts of the candidates of s that carry no embedding, in input order.
RECURSIVE TextsWithout(_)
TextsWithout(s) ==
    IF s = <<>> THEN <<>>
    ELSE IF Supplied(Head(s)) THEN TextsWithout(Tail(s))
    ELSE <<RequestedText(Head(s))>> \o TextsWithout(Tail(s))

\* The score of a unit vector against Embed(Sentence) = <<1, 0>>.
ScoreOfVector(e) == e[1]

\* C20 as stated: under either flag, compareSentenceToArray asks the provider
\* for exactly the candidates that carry no embedding, and scores a candidate
\* that carries one with that vector.
C20_EmbeddingResolvedBySupply ==
    (/\ call.op = "compareSentenceToArray" /\ call.src = "array"
     /\ Settled(call) /\ call.error # ProviderError
     /\ Len(heap["array"]) >= 1)
    => /\ call.status = "ok"
       /\ call.requests = <<Sentence>> \o TextsWithout(heap["array"])
       /\ \A i \in 1..Len(heap["array"]) :
             LET x == heap["array"][i]
             IN  call.result[i].alike =
                     IF Supplied(x) THEN ScoreOfVector(x.embedding)
                     ELSE Similarity(x.str)

\* C20 amended: the flag decides, not the candidate.  With precached = false
\* every candidate is asked of the provider and scored with the answer, the
\* embedding it may carry being ignored; with precached = true no candidate
\* is asked of the provider, a candidate that carries an embedding is scored
\* with that vector, and the call fails with a TypeError, returning nothing,
\* at the first candidate that carries none.
C20_EmbeddingResolvedByFlag ==
    (/\ call.op = "compareSentenceToArray" /\ call.src = "array"
     /\ Settled(call) /\ call.error # ProviderError
     /\ Len(heap["array"]) >= 1)
    => IF ~call.flag
       THEN /\ call.status = "ok"
            /\ call.requests = <<Sentence>> \o CandidateTexts(heap["array"])
            /\ \A i \in 1..Len(heap["array"]) :
                  call.result[i].alike = Similarity(RequestedText(heap["array"][i]))
       ELSE /\ call.requests = <<Sentence>>
            /\ IF \A i \in 1..Len(heap["array"]) : Supplied(heap["array"][i])
               THEN /\ call.status = "ok"
                    /\ \A i \in 1..Len(heap["array"]) :
                          call.result[i].alike =
                              ScoreOfVector(heap["array"][i].embedding)
               ELSE /\ call.status = "error" /\ call.error = TypeError
                    /\ call.result = <<>>

C20_Witness ==
    /\ call.op = "compareSentenceToArray" /\ call.status = "ok" /\ call.flag
    /\ heap["array"] = <<Entry("a", Stale("a")), Entry("b", Embed("b"))>>
    /\ call.requests = <<Sentence>>
    /\ call.result = <<[sentenceTwo |-> "a", alike |-> 0],
                       [sentenceTwo |-> "b", alike |-> 0]>>

\* The number of coordinates of the provider's embeddings.
Dimension == Len(Embed(Sentence))

\* C21: a cached operation given an entry whose embedding has not the
\* provider's number of coordinates fails: it returns no result list, and so
\* no score computed from that vector.
C21_MismatchedEmbeddingIsAnError ==
    (/\ call.op \in {"cachedCompareSentenceToArray", "cachedArrayInOrder"}
     /\ Settled(call)
     /\ \E i \in 1..Len(heap["cachedArray"]) :
           Len(heap["cachedArray"][i].embedding) # Dimension)
    => (call.status = "error" /\ call.result = <<>>)

\* The requests of the call that have had no answer yet.
Outstanding(c) == Len(c.requests) - c.answered

\* C22: within one call at most one provider request is outstanding at any
\* moment (exactly one while the call is suspended on the provider, none
\* otherwise), and a running call issues a further request only in the step
\* in which the answer to its previous one arrives.
C22_RequestsStrictlySequential ==
    /\ [](/\ Outstanding(call) \in {0, 1}
          /\ Outstanding(call) = 1 <=> (call.status = "running" /\ call.await # ""))
    /\ [][(call.status = "running" /\ Len(call'.requests) > Len(call.requests))
          => /\ Len(call'.requests) = Len(call.requests) + 1
             /\ call'.answered = Len(call.requests)
             /\ call.answered = Len(call.requests) - 1]_vars

C22_Witness ==
    /\ call.op = "getCached" /\ call.status = "running"
    /\ call.requests = <<"b", "a", "c">>
    /\ call.answered = 2
    /\ Len(heap["returned"]) = 2

\* C23: when the provider settles every request, every call that was started
\* completes, with a result or an error; and a call suspended on a request
\* takes no step but the arrival of that request's answer: until then it
\* neither completes nor sends another request.
C23_CallsCompleteIffProviderAnswers ==
    /\ [](call.status = "running" => <>Settled(call))
    /\ [][(call.status = "running" /\ call.await # "")
          => \/ call' = call
             \/ call'.answered = call.answered + 1]_vars

C23_Witness ==
    /\ call.op = "getTop" /\ call.status = "ok"
    /\ Len(heap["array"]) = 2
    /\ call.answered = 3

\* The retained candidates of list as plain pairs, head to tail.
PlainPairs(list) ==
    LET a == Arrivals(list)
    IN  [i \in 1..Len(a) |-> [alike |-> list.nodes[a[i]].alike,
                              sentenceTwo |-> list.nodes[a[i]].sentenceTwo]]

\* C24: getArray returns the retained candidates as {alike, sentenceTwo}
\* pairs, without links, in head-to-tail order; two getArray calls with no
\* addNode between them return equal sequences; and the call leaves head,
\* tail, length and every node of the list as they were.
C24_GetArrayIsPlainSnapshot ==
    /\ []((call.op = "getArray" /\ call.at = Len(fed))
          => /\ call.result = PlainPairs(ranker)
             /\ Len(call.result) = ranker.length
             /\ \A i \in 1..Len(call.result) :
                   DOMAIN call.result[i] = {"alike", "sentenceTwo"})
    /\ []((call.op = "getArray" /\ prev.op = "getArray" /\ prev.at = call.at)
          => call.result = prev.result)
    /\ [][call'.op = "getArray" /\ fed' = fed => ranker' = ranker]_vars

C24_Witness ==
    /\ ranker.maxLength = 2 /\ fed = <<0, 1, -1>>
    /\ prev.op = "getArray" /\ prev.at = 3
    /\ call.op = "getArray" /\ call.at = 3
    /\ call.result = <<[alike |-> 1, sentenceTwo |-> "2"],
                       [alike |-> 0, sentenceTwo |-> "1"]>>

\* C25: however the loadModel calls follow or overlap one another, pipeline()
\* is invoked at most once, by a call that finds no instance; every loadModel
\* call ends as that one initialisation ends, so that no call succeeds where
\* another failed, and a call made after the failure starts no other
\* initialisation and can only fail.
C25_PipelineCreatedOnce ==
    /\ [](/\ pipelineCalls <= 1
          /\ pipelineCalls = 0 <=> instance = NULL
          /\ \A l \in 1..Len(loaders) :
                /\ loaders[l] = "ok" => instance = "resolved"
                /\ loaders[l] = "failed" => instance = "rejected")
    /\ [][/\ pipelineCalls' # pipelineCalls => instance = NULL
          /\ instance = "rejected" => instance' = "rejected"]_vars

C25_Witness ==
    /\ loaders = <<"failed", "failed">>
    /\ pipelineCalls = 1
    /\ model = NULL

\* The requests a sweep makes for the candidates of array s.
RequestsFor(s) == IF s = <<>> THEN <<>> ELSE <<Sentence>> \o CandidateTexts(s)

\* C26: getTop scores the candidates its array held when it was called
\* (arrayCopy), whatever the caller pushes on, pops off or assigns in the
\* array while the call is suspended: those candidates and no others are
\* sent to the provider, and the result has min(k, their number) entries.
C26_GetTopWorksOnSnapshot ==
    (call.op = "getTop" /\ call.status = "ok")
    => /\ call.requests = RequestsFor(heap["copyA"])
       /\ Len(call.result) = Min(call.k, Len(heap["copyA"]))

\* C27: after every addNode on a list of capacity K >= 1 the links agree:
\* head has no prev, tail has no next and is the last node reached from head,
\* each node is the prev of its next, the length field counts the nodes
\* reached from head, and _getIndex returns, for any score, an index from 0
\* to the length.
C27_LinksAreConsistent ==
    LET a == Arrivals(ranker)
    IN  /\ ~ranker.crashed
        /\ ranker.length = Len(a)
        /\ (ranker.head = NoNode) <=> (ranker.tail = NoNode)
        /\ a # <<>> =>
              /\ ranker.nodes[ranker.head].prev = NoNode
              /\ ranker.nodes[ranker.tail].next = NoNode
              /\ ranker.tail = a[Len(a)]
              /\ \A i \in 1..(Len(a) - 1) :
                    /\ ranker.nodes[a[i]].next = a[i + 1]
                    /\ ranker.nodes[a[i + 1]].prev = a[i]
        /\ \A alike \in Scores :
              _getIndex(ranker, alike) \in 0..ranker.length

C27_Witness ==
    /\ ranker.maxLength = 3
    /\ fed = <<1, -1, 0, 0>>
    /\ Arrivals(ranker) = <<1, 4, 3>>
    /\ ranker.tail = 3
    /\ _getIndex(ranker, 0) = 1

====
